---- MODULE Spec2Model ----
(***************************************************************************)
(* Store normalization of relay-general (NormalizeProcessor), modelled as  *)
(* a state machine: an event parsed from a payload is normalized by        *)
(* process_event and then normalized a second time (renormalization).      *)
(*                                                                         *)
(* Encoding.                                                               *)
(*   Option<T>     None is <<>>, Some(x) is <<x>>.                         *)
(*   Annotated<T>  [val, err, orig]: val is the Option<T> value, err the   *)
(*                 ordered errors of the meta, orig the Option original    *)
(*                 value of the meta.                                      *)
(*   Strings that are only compared, tested for emptiness or measured are  *)
(*   TLA+ strings; release and dist, which are case-folded and trimmed,    *)
(*   and the ty and value of an exception, which are matched and split,    *)
(*   are sequences of one-character strings.                               *)
(* The event record holds the fields that the properties below read or     *)
(* that decide them; the other fields of Event (errors, level, id, logger, *)
(* extra, client_sdk, ...) are not part of the state.                      *)
(***************************************************************************)
EXTENDS Integers, Sequences, FiniteSets, TLC

VARIABLES
    event,      \* the Event being processed, mutated in place by each pass
    prev,       \* the event as it was handed to the last pass
    input,      \* the event as parsed from the payload
    config,     \* the StoreConfig (read-only after construction)
    uaparser,   \* whether the build has the cargo feature "uaparser"
    passes,     \* number of process_event calls made so far
    result,     \* outcome of the last call: "none", "Ok" or "Panic"
    retained,   \* the tag list as tags.retain(..) left it in the last call
    validated,  \* the tag list as the per-tag validation left it in that call
    ipauto,     \* whether IpAddr::parse accepts the text "{{auto}}"
    geoip_lookup,   \* the processor's Option<&GeoIpLookup>: None, or Some of
                    \* the set of addresses the lookup resolves
    clock,      \* the readings of Utc::now(), one for each call to come
    cli,        \* one run of the `process-event` command: its arguments, its
                \* position and the visits made to the event so far
    controller, \* the Controller actor, the shutdowns it has started and
                \* whether the actix system has been stopped
    relayconfig \* the relay Config object and its file on disk

\* the state of the normalizer
storevars ==
    <<event, prev, input, config, uaparser, passes, result, retained, validated,
      ipauto, geoip_lookup, clock>>

vars ==
    <<event, prev, input, config, uaparser, passes, result, retained, validated,
      ipauto, geoip_lookup, clock, cli, controller, relayconfig>>

----------------------------------------------------------------------------
(* Bounds of the model *)

\* longest tag list of an input event
MaxTags == 3

\* longest list of exceptions of an input event
MaxExceptions == 2

\* latest reading of the clock
MaxInstant == 4

\* largest number of actors that subscribe to the Controller
MaxSubscribers == 2

\* largest number of shutdowns the Controller starts
MaxSignals == 2

\* largest number of times the credentials are regenerated
MaxCredentials == 5

\* number of times the same event is run through process_event
MaxPasses == 2

----------------------------------------------------------------------------
(* Option and Annotated *)

None == <<>>

Some(x) == <<x>>

\* Annotated::empty()
Empty == [val |-> None, err |-> <<>>, orig |-> None]

\* Annotated::new(value)
New(x) == [val |-> Some(x), err |-> <<>>, orig |-> None]

\* Annotated::from(Option<T>)
FromOption(o) == [val |-> o, err |-> <<>>, orig |-> None]

\* Annotated::apply: the closure runs only when a value is present; it yields
\* the errors it added to the meta and its result, which apply then enacts.
Apply(a, action, errors) ==
    IF a.val = None THEN a
    ELSE CASE action = "Keep" ->
                [a EXCEPT !.err = @ \o errors]
           [] action = "DeleteValueSoft" ->
                [val |-> None, err |-> a.err \o errors, orig |-> a.val]
           [] action = "DeleteValueHard" ->
                [val |-> None, err |-> a.err \o errors, orig |-> a.orig]

\* Annotated::get_or_insert_with
GetOrInsertWith(a, x) == IF a.val = None THEN [a EXCEPT !.val = Some(x)] ELSE a

\* Meta::is_empty
MetaIsEmpty(a) == a.err = <<>> /\ a.orig = None

\* Empty::is_empty of an Annotated<String>: nothing would be serialized for it
AnnotatedIsEmpty(a) == MetaIsEmpty(a) /\ (a.val = None \/ a.val[1] = "")

----------------------------------------------------------------------------
(* Strings as character sequences (release, dist) *)

\* char::to_ascii_lowercase on the letters the model uses
ToAsciiLowercase(c) ==
    CASE c = "L" -> "l"
      [] c = "A" -> "a"
      [] c = "T" -> "t"
      [] c = "E" -> "e"
      [] c = "S" -> "s"
      [] OTHER -> c

\* str::eq_ignore_ascii_case
EqIgnoreAsciiCase(a, b) ==
    /\ Len(a) = Len(b)
    /\ \A i \in 1..Len(a) : ToAsciiLowercase(a[i]) = ToAsciiLowercase(b[i])

\* char::is_whitespace on the characters the model uses
IsWhitespace(c) == c \in {" ", "\t", "\n"}

RECURSIVE TrimStart(_)
TrimStart(s) ==
    IF s # <<>> /\ IsWhitespace(Head(s)) THEN TrimStart(Tail(s)) ELSE s

RECURSIVE TrimEnd(_)
TrimEnd(s) ==
    IF s # <<>> /\ IsWhitespace(s[Len(s)])
    THEN TrimEnd(SubSeq(s, 1, Len(s) - 1))
    ELSE s

\* str::trim
Trim(s) == TrimEnd(TrimStart(s))

----------------------------------------------------------------------------
(* Protocol constants *)

VALID_PLATFORMS == {"cocoa", "javascript", "objc", "other"}

INVALID_ENVIRONMENTS == {"none"}

INVALID_RELEASES == {<<"l", "a", "t", "e", "s", "t">>}

\* MaxChars::TagKey.limit()
MaxCharsTagKey == 32

\* MaxChars::TagValue.limit()
MaxCharsTagValue == 200

\* bytecount::num_chars
NumChars(s) == Len(s)

----------------------------------------------------------------------------
(* Validators *)

is_valid_platform(platform) == platform \in VALID_PLATFORMS

is_valid_environment(environment) == environment \notin INVALID_ENVIRONMENTS

\* a case-sensitive comparison in place of eq_ignore_ascii_case
is_valid_release_case_sensitive(release) == release \notin INVALID_RELEASES

is_valid_release(release) ==
    ~ \E invalid \in INVALID_RELEASES : EqIgnoreAsciiCase(release, invalid)

----------------------------------------------------------------------------
(* Tags: a PairList of Annotated<TagEntry>; a TagEntry is a (key, value)   *)
(* pair of Annotated<String>.                                              *)

\* TagEntry(key, value)
TagEntry(key, value) == [key |-> key, value |-> value]

\* Annotated::new(TagEntry(Annotated::new(k), Annotated::new(v)))
Tag(k, v) == New(TagEntry(New(k), New(v)))

\* a key of 33 characters, one more than MaxChars::TagKey allows
LongKey == "kkkkkkkkkkkkkkkkkkkkkkkkkkkkkkkkk"

\* a value of 201 characters, one more than MaxChars::TagValue allows
LongValue ==
    "vvvvvvvvvvvvvvvvvvvvvvvvvvvvvvvvvvvvvvvvvvvvvvvvvvvvvvvvvvvvvvvvvvv"
        \o "vvvvvvvvvvvvvvvvvvvvvvvvvvvvvvvvvvvvvvvvvvvvvvvvvvvvvvvvvvvvvvvvvvv"
        \o "vvvvvvvvvvvvvvvvvvvvvvvvvvvvvvvvvvvvvvvvvvvvvvvvvvvvvvvvvvvvvvvvvvv"

\* TagEntry::key(): the key as Option<&str>
TagKeyOf(tag) == tag.key.val

\* TagEntry::value(): the value as Option<&str>
TagValueOf(tag) == tag.value.val

\* PairList::position: index of the first entry holding the key, 0 if none
Position(tags, key) ==
    LET hits == {i \in 1..Len(tags) :
                    tags[i].val # None /\ TagKeyOf(tags[i].val[1]) = Some(key)}
    IN  IF hits = {} THEN 0 ELSE CHOOSE i \in hits : \A j \in hits : i <= j

\* Vec::remove
RemoveAt(s, i) == SubSeq(s, 1, i - 1) \o SubSeq(s, i + 1, Len(s))

\* PairList::remove: takes the first entry holding the key out of the list and
\* returns the Annotated value of its pair; [list, removed: Option<Annotated>]
PairListRemove(tags, key) ==
    LET i == Position(tags, key)
    IN  IF i = 0
        THEN [list |-> tags, removed |-> None]
        ELSE [list |-> RemoveAt(tags, i), removed |-> Some(tags[i].val[1].value)]

\* PairList::insert: replaces the value of the first entry holding the key in
\* place, or appends a new entry
PairListInsert(tags, key, value) ==
    LET i == Position(tags, key)
    IN  IF i = 0
        THEN Append(tags, New(TagEntry(New(key), value)))
        ELSE [tags EXCEPT ![i].val[1].value = value]

\* the strings that occur as tag keys, in a fixed order
HashedNames ==
    <<"foo", "bar", "environment", "server_name", "site", LongKey,
      "release", "dist", "user", "filename", "function", "">>

\* DefaultHasher::new() / element.hash() / finish(): the 64-bit SipHash of the
\* name; it has no collision among the names of the model
DefaultHash(element) ==
    CHOOSE h \in 1..Len(HashedNames) : HashedNames[h] = element

\* a probe that never remembers what it has seen
DedupCacheProbeForgetful(cache, element) == [fresh |-> TRUE, cache |-> cache]

\* DedupCache::probe: [fresh: the bool returned, cache: the cache afterwards]
DedupCacheProbe(cache, element) ==
    LET hash == DefaultHash(element)
    IN  IF \E i \in 1..Len(cache) : cache[i] = hash
        THEN [fresh |-> FALSE, cache |-> cache]
        ELSE [fresh |-> TRUE, cache |-> Append(cache, hash)]

\* the internal names without "release"
InternalTagNamesWithoutRelease == {"", "dist", "user", "filename", "function"}

\* the tag names that are generated with a `sentry:` prefix when saving
InternalTagNames == {"", "release", "dist", "user", "filename", "function"}

\* tag.key().unwrap_or_default()
KeyOrDefault(tag) == IF TagKeyOf(tag) = None THEN "" ELSE TagKeyOf(tag)[1]

\* a retain whose cache is probed before the internal names are matched and
\* that keeps the last occurrence of a name instead of the first
RECURSIVE RetainTagsKeepLast(_, _)
RetainTagsKeepLast(tags, tag_cache) ==
    IF tags = <<>> THEN <<>>
    ELSE LET entry == tags[Len(tags)]
             front == SubSeq(tags, 1, Len(tags) - 1)
         IN  IF entry.val = None
             THEN Append(RetainTagsKeepLast(front, tag_cache), entry)
             ELSE LET name == KeyOrDefault(entry.val[1])
                  IN  IF name \in InternalTagNames
                      THEN RetainTagsKeepLast(front, tag_cache)
                      ELSE LET p == DedupCacheProbe(tag_cache, name)
                           IN  IF p.fresh
                               THEN Append(RetainTagsKeepLast(front, p.cache), entry)
                               ELSE RetainTagsKeepLast(front, p.cache)

\* tags.retain(|entry| ...) with the DedupCache threaded through the calls of
\* the closure in list order
RECURSIVE RetainTags(_, _)
RetainTags(tags, tag_cache) ==
    IF tags = <<>> THEN <<>>
    ELSE LET entry == Head(tags)
         IN  IF entry.val = None
             THEN <<entry>> \o RetainTags(Tail(tags), tag_cache)
             ELSE LET name == KeyOrDefault(entry.val[1])
                  IN  IF name \in InternalTagNames
                      THEN RetainTags(Tail(tags), tag_cache)
                      ELSE LET p == DedupCacheProbe(tag_cache, name)
                           IN  IF p.fresh
                               THEN <<entry>> \o RetainTags(Tail(tags), p.cache)
                               ELSE RetainTags(Tail(tags), p.cache)

\* the closure of the per-tag validation: [action, errors]
ValidateTag(tag) ==
    IF TagKeyOf(tag) # None /\ NumChars(TagKeyOf(tag)[1]) > MaxCharsTagKey
    THEN [action |-> "DeleteValueHard", errors |-> <<"ValueTooLong">>]
    ELSE IF TagValueOf(tag) # None /\ TagValueOf(tag)[1] = ""
    THEN [action |-> "DeleteValueHard", errors |-> <<"NonEmptyExpected">>]
    ELSE IF TagValueOf(tag) # None /\ NumChars(TagValueOf(tag)[1]) > MaxCharsTagValue
    THEN [action |-> "DeleteValueHard", errors |-> <<"ValueTooLong">>]
    ELSE [action |-> "Keep", errors |-> <<>>]

\* a validation loop that returns at the first tag it rejects
ValidateTagsStopAtFirst(tags) ==
    [i \in 1..Len(tags) |->
        IF tags[i].val = None THEN tags[i]
        ELSE IF \E j \in 1..(i - 1) :
                    /\ tags[j].val # None
                    /\ ValidateTag(tags[j].val[1]).action # "Keep"
             THEN tags[i]
             ELSE LET r == ValidateTag(tags[i].val[1])
                  IN  Apply(tags[i], r.action, r.errors)]

\* for tag in tags.iter_mut() { tag.apply(...)?; }
ValidateTags(tags) ==
    [i \in 1..Len(tags) |->
        IF tags[i].val = None THEN tags[i]
        ELSE LET r == ValidateTag(tags[i].val[1])
             IN  Apply(tags[i], r.action, r.errors)]

\* a move that pushes a new entry without looking for one holding the key
move_into_tags_push(tags, key, field) ==
    IF field.val # None
    THEN Append(tags, New(TagEntry(New(key), field)))
    ELSE tags

\* let field = std::mem::take(&mut event.field);
\* if field.value().is_some() { tags.insert(key, field); }
move_into_tags(tags, key, field) ==
    IF field.val # None THEN PairListInsert(tags, key, field) ELSE tags

\* NormalizeProcessor::normalize_event_tags, statement by statement: the
\* environment and the tag list after each statement
event_tags_steps(e) ==
    LET tags0 == IF e.tags.val = None THEN <<>> ELSE e.tags.val[1]
        env0  == IF AnnotatedIsEmpty(e.environment) THEN Empty ELSE e.environment
        rem   == PairListRemove(tags0, "environment")
        env1  == IF rem.removed # None /\ rem.removed[1].val # None
                 THEN GetOrInsertWith(env0, rem.removed[1].val[1])
                 ELSE env0
        tags1 == RetainTags(rem.list, <<>>)
        tags2 == ValidateTags(tags1)
        tags3 == move_into_tags(tags2, "server_name", e.server_name)
        tags4 == move_into_tags(tags3, "site", e.site)
    IN  [environment |-> env1, retained |-> tags1, validated |-> tags2,
         tags |-> tags4]

\* NormalizeProcessor::normalize_event_tags
normalize_event_tags(e) ==
    LET t == event_tags_steps(e)
    IN  [e EXCEPT !.tags = [@ EXCEPT !.val = Some(t.tags)],
                  !.environment = t.environment,
                  !.server_name = Empty,
                  !.site = Empty]

----------------------------------------------------------------------------
(* The steps of NormalizeProcessor::process_event *)

\* a normalize_release_dist that trims dist but never clears it
normalize_release_dist_keeps_dist(e) ==
    IF e.dist.val # None
    THEN [e EXCEPT !.dist.val = Some(Trim(e.dist.val[1]))]
    ELSE e

\* NormalizeProcessor::normalize_release_dist
normalize_release_dist(e) ==
    LET release_is_empty == e.release.val = None \/ e.release.val[1] = <<>>
        dist == IF e.dist.val # None /\ release_is_empty
                THEN [e.dist EXCEPT !.val = None]
                ELSE e.dist
    IN  IF dist.val # None
        THEN [e EXCEPT !.dist = [dist EXCEPT !.val = Some(Trim(dist.val[1]))]]
        ELSE [e EXCEPT !.dist = dist]

\* an inference that counts only the exceptions that hold a value
infer_event_type_live_exceptions(e) ==
    IF e.ty.val # None THEN e.ty.val[1]
    ELSE LET has_exceptions ==
                 /\ e.exceptions.val # None
                 /\ e.exceptions.val[1].values.val # None
                 /\ \E i \in 1..Len(e.exceptions.val[1].values.val[1]) :
                        e.exceptions.val[1].values.val[1][i].val # None
         IN  IF has_exceptions THEN "error"
             ELSE IF e.csp.val # None THEN "csp"
             ELSE IF e.hpkp.val # None THEN "hpkp"
             ELSE IF e.expectct.val # None THEN "expectct"
             ELSE IF e.expectstaple.val # None THEN "expectstaple"
             ELSE "default"

\* NormalizeProcessor::infer_event_type
infer_event_type(e) ==
    IF e.ty.val # None THEN e.ty.val[1]
    ELSE LET has_exceptions ==
                 /\ e.exceptions.val # None
                 /\ e.exceptions.val[1].values.val # None
                 /\ e.exceptions.val[1].values.val[1] # <<>>
         IN  IF has_exceptions THEN "error"
             ELSE IF e.csp.val # None THEN "csp"
             ELSE IF e.hpkp.val # None THEN "hpkp"
             ELSE IF e.expectct.val # None THEN "expectct"
             ELSE IF e.expectstaple.val # None THEN "expectstaple"
             ELSE "default"

\* FromValue::from_value(Annotated::<Value>::from(x)) for a JSON object x
FromValueObject(x) == New(x)

\* an override that only fills in the attributes the payload left out
override_internal_attributes_if_absent(e, c) ==
    [e EXCEPT
        !.project = IF @.val = None THEN New(c.project_id) ELSE @,
        !.key_id = IF @.val = None THEN FromOption(c.key_id) ELSE @,
        !.ty = New(infer_event_type(e)),
        !.version = IF @.val = None THEN FromOption(c.protocol_version) ELSE @,
        !.grouping_config =
            IF @.val # None THEN @
            ELSE IF c.grouping_config = None THEN Empty
            ELSE FromValueObject(c.grouping_config[1])]

\* process_event, "Override internal attributes, even if they were set in the
\* payload"
override_internal_attributes(e, c) ==
    [e EXCEPT
        !.project = New(c.project_id),
        !.key_id = FromOption(c.key_id),
        !.ty = New(infer_event_type(e)),
        !.version = FromOption(c.protocol_version),
        !.grouping_config =
            IF c.grouping_config = None THEN Empty
            ELSE FromValueObject(c.grouping_config[1])]

\* process_event, "Validate basic attributes"
validate_basic_attributes(e) ==
    [e EXCEPT
        !.platform =
            IF @.val = None THEN @
            ELSE IF is_valid_platform(@.val[1])
                 THEN Apply(@, "Keep", <<>>)
                 ELSE Apply(@, "DeleteValueSoft", <<>>),
        !.environment =
            IF @.val = None THEN @
            ELSE IF is_valid_environment(@.val[1])
                 THEN Apply(@, "Keep", <<>>)
                 ELSE Apply(@, "DeleteValueSoft", <<"InvalidData">>),
        !.release =
            IF @.val = None THEN @
            ELSE IF is_valid_release(@.val[1])
                 THEN Apply(@, "Keep", <<>>)
                 ELSE Apply(@, "DeleteValueSoft", <<"InvalidData">>)]

\* defaulting that leaves an absent platform absent
default_required_attributes_no_platform(e) == e

\* process_event, "Default required attributes, even if they have errors"
default_required_attributes(e) ==
    [e EXCEPT !.platform = GetOrInsertWith(@, "other"),
              !.logger = GetOrInsertWith(@, "")]

\* NormalizeProcessor::normalize_user_agent: without the uaparser feature the
\* build compiles the panic! in; with it, user_agent::normalize_user_agent
\* fills contexts, which are not part of the state
normalize_user_agent(c, build_has_uaparser) ==
    IF c.normalize_user_agent # None /\ c.normalize_user_agent[1]
    THEN IF build_has_uaparser THEN "Ok" ELSE "Panic"
    ELSE "Ok"

\* User with its ip_address and no geo
User(ip_address) == [ip_address |-> ip_address, geo |-> Empty]

\* the Geo a lookup gives for an address it resolves
GeoOf(ip) == [resolved |-> ip]

\* process_value on the slot of the user: NormalizeProcessor::process_user
\* infers user.geo from user.ip_address; lookup(..) is Ok(Some(geo)) for the
\* addresses the lookup resolves
process_user(slot, lookup) ==
    IF slot.val = None THEN slot
    ELSE LET user == slot.val[1]
         IN  IF /\ user.geo.val = None
                /\ lookup # None
                /\ user.ip_address.val # None
                /\ user.ip_address.val[1] \in lookup[1]
             THEN [slot EXCEPT !.val[1].geo.val =
                                   Some(GeoOf(user.ip_address.val[1]))]
             ELSE slot

\* User::default()
DefaultUser == User(Empty)

\* Request with its env and headers; env is the entry of REMOTE_ADDR (None
\* when the object has no such key), headers the entry of User-Agent
Request(env, headers) == [env |-> env, headers |-> headers]

\* Request::default()
DefaultRequest == Request(Empty, Empty)

\* Value::String and a value of another kind
StringValue(text) == [kind |-> "string", text |-> text]

NumberValue(text) == [kind |-> "number", text |-> text]

\* IpAddr::auto()
AutoIp == "{{auto}}"

\* IpAddr::is_auto
IsAuto(ip) == ip = "{{auto}}"

\* the texts of the model that std::net::IpAddr::from_str accepts
IpTexts == {"213.47.147.207", "10.0.0.5", "192.168.0.1", "::1"}

\* IpAddr::parse(text).ok()
IpAddrParse(text, accepts_auto) ==
    IF text \in IpTexts \/ (accepts_auto /\ text = "{{auto}}")
    THEN Some(text)
    ELSE None

\* NormalizeProcessor::is_security_report
is_security_report(e) ==
    \/ e.csp.val # None
    \/ e.expectct.val # None
    \/ e.expectstaple.val # None
    \/ e.hpkp.val # None

\* event.user.value_mut().get_or_insert_with(User::default)
WithUser(e) == [e EXCEPT !.user = GetOrInsertWith(@, DefaultUser)]

\* a backfill that gives the client IP only to a user without address
normalize_security_report_keeps_ip(e, c) ==
    IF ~is_security_report(e) THEN e
    ELSE LET e1 == [e EXCEPT !.logger = GetOrInsertWith(@, "csp")]
             e2 == IF c.client_ip # None
                   THEN [WithUser(e1) EXCEPT
                            !.user.val[1].ip_address =
                                GetOrInsertWith(@, c.client_ip[1])]
                   ELSE e1
         IN  IF c.user_agent # None
             THEN LET request == GetOrInsertWith(e2.request, DefaultRequest)
                      headers == GetOrInsertWith(request.val[1].headers, None)
                      inserted == IF headers.val[1] = None
                                  THEN [headers EXCEPT
                                           !.val = Some(Some(New(c.user_agent[1])))]
                                  ELSE headers
                  IN  [e2 EXCEPT !.request =
                          [request EXCEPT !.val[1].headers = inserted]]
             ELSE e2

\* NormalizeProcessor::normalize_security_report
normalize_security_report(e, c) ==
    IF ~is_security_report(e) THEN e
    ELSE LET e1 == [e EXCEPT !.logger = GetOrInsertWith(@, "csp")]
             e2 == IF c.client_ip # None
                   THEN [WithUser(e1) EXCEPT
                            !.user.val[1].ip_address = New(c.client_ip[1])]
                   ELSE e1
         IN  IF c.user_agent # None
             THEN LET request == GetOrInsertWith(e2.request, DefaultRequest)
                      headers == GetOrInsertWith(request.val[1].headers, None)
                      inserted == IF headers.val[1] = None
                                  THEN [headers EXCEPT
                                           !.val = Some(Some(New(c.user_agent[1])))]
                                  ELSE headers
                  IN  [e2 EXCEPT !.request =
                          [request EXCEPT !.val[1].headers = inserted]]
             ELSE e2

\* the entry of REMOTE_ADDR in request.env, None when there is none
RemoteAddr(e) ==
    IF e.request.val = None \/ e.request.val[1].env.val = None THEN None
    ELSE e.request.val[1].env.val[1]

\* the text of REMOTE_ADDR when the entry holds a Value::String
RemoteAddrStr(e) ==
    LET entry == RemoteAddr(e)
    IN  IF entry # None /\ entry[1].val # None
           /\ entry[1].val[1].kind = "string"
        THEN Some(entry[1].val[1].text)
        ELSE None

\* a resolution of {{auto}} that leaves user.ip_address alone
resolve_auto_request_only(e, c) ==
    IF c.client_ip = None THEN e
    ELSE IF RemoteAddrStr(e) = Some("{{auto}}")
         THEN [e EXCEPT !.request.val[1].env.val[1][1].val[1].text =
                            c.client_ip[1]]
         ELSE e

\* normalize_ip_addresses, "Resolve {{auto}}"
resolve_auto(e, c) ==
    IF c.client_ip = None THEN e
    ELSE LET e1 == IF RemoteAddrStr(e) = Some("{{auto}}")
                   THEN [e EXCEPT !.request.val[1].env.val[1][1].val[1].text =
                                      c.client_ip[1]]
                   ELSE e
         IN  IF /\ e1.user.val # None
                /\ e1.user.val[1].ip_address.val # None
                /\ IsAuto(e1.user.val[1].ip_address.val[1])
             THEN [e1 EXCEPT !.user.val[1].ip_address.val = Some(c.client_ip[1])]
             ELSE e1

\* a backfill in which the address of the request replaces the user's own
backfill_user_ip_overwrites(e, c, accepts_auto) ==
    LET http_ip == IF RemoteAddrStr(e) = None THEN None
                   ELSE IpAddrParse(RemoteAddrStr(e)[1], accepts_auto)
    IN  IF http_ip # None
        THEN [WithUser(e) EXCEPT !.user.val[1].ip_address = New(http_ip[1])]
        ELSE IF c.client_ip # None
        THEN LET e1 == WithUser(e)
             IN  IF /\ e1.user.val[1].ip_address.val = None
                    /\ e1.platform.val \in
                           {<<"javascript">>, <<"cocoa">>, <<"objc">>}
                 THEN [e1 EXCEPT !.user.val[1].ip_address = New(c.client_ip[1])]
                 ELSE e1
        ELSE e

\* normalize_ip_addresses, "Copy IPs from request interface to user, and
\* resolve platform-specific backfilling"
backfill_user_ip(e, c, accepts_auto) ==
    LET http_ip == IF RemoteAddrStr(e) = None THEN None
                   ELSE IpAddrParse(RemoteAddrStr(e)[1], accepts_auto)
    IN  IF http_ip # None
        THEN [WithUser(e) EXCEPT
                 !.user.val[1].ip_address = GetOrInsertWith(@, http_ip[1])]
        ELSE IF c.client_ip # None
        THEN LET e1 == WithUser(e)
             IN  IF /\ e1.user.val[1].ip_address.val = None
                    /\ e1.platform.val \in
                           {<<"javascript">>, <<"cocoa">>, <<"objc">>}
                 THEN [e1 EXCEPT !.user.val[1].ip_address = New(c.client_ip[1])]
                 ELSE e1
        ELSE e

\* NormalizeProcessor::normalize_ip_addresses
normalize_ip_addresses(e, c, accepts_auto) ==
    backfill_user_ip(resolve_auto(e, c), c, accepts_auto)

\* \w of the regex crate, on ASCII
WordChars ==
    {"a", "b", "c", "d", "e", "f", "g", "h", "i", "j", "k", "l", "m", "n",
     "o", "p", "q", "r", "s", "t", "u", "v", "w", "x", "y", "z",
     "A", "B", "C", "D", "E", "F", "G", "H", "I", "J", "K", "L", "M", "N",
     "O", "P", "Q", "R", "S", "T", "U", "V", "W", "X", "Y", "Z",
     "0", "1", "2", "3", "4", "5", "6", "7", "8", "9", "_"}

\* the least element of a non-empty set of integers
Least(set) == CHOOSE i \in set : \A j \in set : i <= j

\* TYPE_VALUE_RE.captures(value) for Regex::new(r"^(\w+):(.*)$"): \w does not
\* match `:`, so the first group can only end at the first colon; `.` does
\* not match a line feed and `$` matches at the end of the text only.
\* None when there is no match, else the two groups.
TypeValueCaptures(value) ==
    LET colons == {i \in 1..Len(value) : value[i] = ":"}
    IN  IF colons = {} THEN None
        ELSE LET k == Least(colons)
             IN  IF /\ k > 1
                    /\ \A i \in 1..(k - 1) : value[i] \in WordChars
                    /\ \A i \in (k + 1)..Len(value) : value[i] # "\n"
                 THEN Some([ty |-> SubSeq(value, 1, k - 1),
                            value |-> SubSeq(value, k + 1, Len(value))])
                 ELSE None

\* A frame of a stack trace: the two fields process_stacktrace relates.
Frame(filename, abs_path) == [filename |-> filename, abs_path |-> abs_path]

\* stacktrace::process_stacktrace on the frames: abs_path is filled in from
\* filename where it is absent
stacktrace_process_stacktrace(frames) ==
    [i \in 1..Len(frames) |->
        IF frames[i].abs_path = None
        THEN [frames[i] EXCEPT !.abs_path = frames[i].filename]
        ELSE frames[i]]

\* a hook that leaves the stack trace as it is
process_stacktrace_skipped(stacktrace) == stacktrace

\* process_value on the slot of a stack trace: NormalizeProcessor::
\* process_stacktrace runs when the slot holds a value
process_stacktrace(stacktrace) ==
    IF stacktrace.val = None THEN stacktrace
    ELSE [stacktrace EXCEPT
             !.val = Some(stacktrace_process_stacktrace(stacktrace.val[1]))]

\* An exception: ty and value are sequences of one-character strings.
Exception(ty, value, stacktrace) ==
    [ty |-> ty, value |-> value, stacktrace |-> stacktrace]

\* Option<&String>::is_empty: absent or of length zero
StrIsEmpty(a) == a.val = None \/ a.val[1] = <<>>

\* a split that does not look at ty
split_type_value_any_ty(exception) ==
    IF exception.value.val # None
    THEN LET cap == TypeValueCaptures(exception.value.val[1])
         IN  IF cap = None THEN exception
             ELSE [exception EXCEPT
                      !.ty.val = Some(cap[1].ty),
                      !.value.val = Some(Trim(cap[1].value))]
    ELSE exception

\* the type:value split of process_exception
split_type_value(exception) ==
    IF StrIsEmpty(exception.ty) /\ exception.value.val # None
    THEN LET cap == TypeValueCaptures(exception.value.val[1])
         IN  IF cap = None THEN exception
             ELSE [exception EXCEPT
                      !.ty.val = Some(cap[1].ty),
                      !.value.val = Some(Trim(cap[1].value))]
    ELSE exception

\* a process_exception that splits the value but deletes nothing
process_exception_keeps_all(slot) ==
    IF slot.val = None THEN slot
    ELSE [slot EXCEPT !.val = Some(split_type_value(
            [slot.val[1] EXCEPT !.stacktrace = process_stacktrace(@)]))]

\* process_value on the slot of one exception: NormalizeProcessor::
\* process_exception runs when the slot holds a value, and the action it
\* returns is enacted on the slot.
process_exception(slot) ==
    IF slot.val = None THEN slot
    ELSE LET walked == [slot.val[1] EXCEPT
                           !.stacktrace = process_stacktrace(@)]
             exception == split_type_value(walked)
             after == [slot EXCEPT !.val = Some(exception)]
         IN  IF StrIsEmpty(exception.ty) /\ StrIsEmpty(exception.value)
             THEN Apply(after, "DeleteValueSoft",
                        <<"MissingAttribute: type or value">>)
             ELSE after

\* the list of exceptions of an event, <<>> when there is none
ExceptionsOf(e) ==
    IF e.exceptions.val = None \/ e.exceptions.val[1].values.val = None
    THEN <<>>
    ELSE e.exceptions.val[1].values.val[1]

\* the event with its list of exceptions replaced (the event has one)
WithExceptions(e, list) ==
    [e EXCEPT !.exceptions.val = Some(
        [e.exceptions.val[1] EXCEPT !.values.val = Some(list)])]

\* event.process_child_values(self, state): the walk over the children.  An
\* action returned by a child's hook is enacted on that child's slot and the
\* walk goes on, so the call returns Ok; none of the hooks of
\* NormalizeProcessor writes a field of the state.
process_child_values(e, lookup) ==
    LET walked == [e EXCEPT !.stacktrace = process_stacktrace(@),
                            !.user = process_user(@, lookup)]
        list == ExceptionsOf(e)
    IN  IF list = <<>> THEN walked
        ELSE WithExceptions(walked,
                 [i \in 1..Len(list) |-> process_exception(list[i])])

\* a normalize_exceptions that moves the stack trace into the first of any
\* number of exceptions
normalize_exceptions_into_first(e) ==
    LET list == ExceptionsOf(e)
    IN  IF Len(list) >= 1 /\ e.stacktrace.val # None /\ list[1].val # None
        THEN [WithExceptions(e,
                 [list EXCEPT ![1].val = Some(
                     [list[1].val[1] EXCEPT !.stacktrace = e.stacktrace])])
              EXCEPT !.stacktrace = Empty]
        ELSE e

\* NormalizeProcessor::normalize_exceptions: mem::swap puts the top-level
\* stack trace into the exception and the exception's own one into the top
\* level, which is then overwritten with Annotated::empty().  The mechanism
\* of an exception is not part of the state.
normalize_exceptions(e) ==
    LET list == ExceptionsOf(e)
    IN  IF Len(list) = 1 /\ e.stacktrace.val # None /\ list[1].val # None
        THEN [WithExceptions(e,
                 [list EXCEPT ![1].val = Some(
                     [list[1].val[1] EXCEPT !.stacktrace = e.stacktrace])])
              EXCEPT !.stacktrace = Empty]
        ELSE e

\* A u64 is the sequence of its four 16-bit limbs, the most significant
\* first: <<a, b, c, d>> is a * 2^48 + b * 2^32 + c * 2^16 + d.
U64(a, b, c, d) == <<a, b, c, d>>

\* x < y on u64
RECURSIVE U64Less(_, _)
U64Less(x, y) ==
    IF x = <<>> THEN FALSE
    ELSE IF Head(x) # Head(y) THEN Head(x) < Head(y)
    ELSE U64Less(Tail(x), Tail(y))

\* 2_147_483_647, which is 32767 * 2^16 + 65535
BoundedIntegerLimit == U64(0, 0, 32767, 65535)

\* a bound check that lets 2147483647 pass
validate_bounded_integer_field_inclusive(value) ==
    IF U64Less(value, BoundedIntegerLimit) \/ value = BoundedIntegerLimit
    THEN "Keep"
    ELSE "DeleteValueHard"

\* validate_bounded_integer_field
validate_bounded_integer_field(value) ==
    IF U64Less(value, BoundedIntegerLimit) THEN "Keep" ELSE "DeleteValueHard"

\* a validation of the timestamp that hard-deletes what it rejects
validate_timestamp_hard(timestamp, c, current_timestamp) ==
    IF /\ c.max_secs_in_future # None
       /\ timestamp > current_timestamp + c.max_secs_in_future[1]
    THEN [action |-> "DeleteValueHard", errors |-> <<"FutureTimestamp">>]
    ELSE IF /\ c.max_secs_in_past # None
            /\ timestamp < current_timestamp - c.max_secs_in_past[1]
    THEN [action |-> "DeleteValueHard", errors |-> <<"PastTimestamp">>]
    ELSE [action |-> "Keep", errors |-> <<>>]

\* the closure normalize_timestamps applies to event.timestamp
validate_timestamp(timestamp, c, current_timestamp) ==
    IF /\ c.max_secs_in_future # None
       /\ timestamp > current_timestamp + c.max_secs_in_future[1]
    THEN [action |-> "DeleteValueSoft", errors |-> <<"FutureTimestamp">>]
    ELSE IF /\ c.max_secs_in_past # None
            /\ timestamp < current_timestamp - c.max_secs_in_past[1]
    THEN [action |-> "DeleteValueSoft", errors |-> <<"PastTimestamp">>]
    ELSE [action |-> "Keep", errors |-> <<>>]

\* NormalizeProcessor::normalize_timestamps, current_timestamp being the
\* reading of Utc::now()
normalize_timestamps(e, c, current_timestamp) ==
    LET checked == IF e.timestamp.val = None THEN e.timestamp
                   ELSE LET r == validate_timestamp(e.timestamp.val[1], c,
                                                    current_timestamp)
                        IN  Apply(e.timestamp, r.action, r.errors)
        timestamp == IF checked.val = None
                     THEN [checked EXCEPT !.val = Some(current_timestamp)]
                     ELSE checked
        time_spent == IF e.time_spent.val = None THEN e.time_spent
                      ELSE Apply(e.time_spent,
                                 validate_bounded_integer_field(
                                     e.time_spent.val[1]), <<>>)
    IN  [e EXCEPT !.received = New(current_timestamp),
                  !.timestamp = timestamp,
                  !.time_spent = time_spent]

\* a process_event that walks the children before it infers the addresses
process_event_walks_first(e, c, build_has_uaparser, accepts_auto, lookup, now) ==
    LET e1 == normalize_security_report(e, c)
        e2 == process_child_values(e1, lookup)
        e3 == normalize_ip_addresses(e2, c, accepts_auto)
        e4 == override_internal_attributes(e3, c)
        e5 == validate_basic_attributes(e4)
        e6 == default_required_attributes(e5)
        e7 == normalize_release_dist(e6)
        e8 == normalize_timestamps(e7, c, now)
        e9 == normalize_event_tags(e8)
        e10 == normalize_exceptions(e9)
    IN  [event |-> e10,
         retained |-> event_tags_steps(e8).retained,
         validated |-> event_tags_steps(e8).validated,
         result |-> normalize_user_agent(c, build_has_uaparser)]

\* NormalizeProcessor::process_event: the event as the call leaves it and the
\* outcome of the call.  Every `?` of the body is applied to the Ok that
\* Annotated::apply returns after enacting the closure's action, so the only
\* way out other than the final Ok(()) is the panic of normalize_user_agent.
process_event(e, c, build_has_uaparser, accepts_auto, lookup, now) ==
    LET e1 == normalize_security_report(e, c)
        e2 == normalize_ip_addresses(e1, c, accepts_auto)
        e3 == process_child_values(e2, lookup)
        e4 == override_internal_attributes(e3, c)
        e5 == validate_basic_attributes(e4)
        e6 == default_required_attributes(e5)
        e7 == normalize_release_dist(e6)
        e8 == normalize_timestamps(e7, c, now)
        e9 == normalize_event_tags(e8)
        e10 == normalize_exceptions(e9)
    IN  [event |-> e10,
         retained |-> event_tags_steps(e8).retained,
         validated |-> event_tags_steps(e8).validated,
         result |-> normalize_user_agent(c, build_has_uaparser)]

----------------------------------------------------------------------------
(* Inputs: the events a payload can parse to and the configs, drawn from   *)
(* families so that each family varies the fields that interact.           *)

\* Event::default()
DefaultEvent ==
    [project |-> Empty, key_id |-> Empty, version |-> Empty,
     grouping_config |-> Empty, ty |-> Empty, exceptions |-> Empty,
     csp |-> Empty, hpkp |-> Empty, expectct |-> Empty, expectstaple |-> Empty,
     platform |-> Empty, environment |-> Empty, release |-> Empty,
     dist |-> Empty, tags |-> Empty, server_name |-> Empty, site |-> Empty,
     stacktrace |-> Empty, logger |-> Empty, user |-> Empty,
     request |-> Empty, received |-> Empty, timestamp |-> Empty,
     time_spent |-> Empty]

\* StoreConfig::default(), with a project id
DefaultConfig ==
    [project_id |-> 1, key_id |-> None, protocol_version |-> None,
     grouping_config |-> None, normalize_user_agent |-> None,
     client_ip |-> None, user_agent |-> None,
     max_secs_in_future |-> None, max_secs_in_past |-> None]

PayloadGrouping == [id |-> "payload:1"]

ConfigGrouping == [id |-> "legacy:1234-12-12"]

\* payloads that set the attributes owned by the server
ServerEvents ==
    {[DefaultEvent EXCEPT !.project = p, !.key_id = k, !.version = v,
                          !.grouping_config = g, !.ty = t, !.csp = s] :
        p \in {Empty, New(1), New(9)},
        k \in {Empty, New("payload-key")},
        v \in {Empty, New("5")},
        g \in {Empty, New(PayloadGrouping)},
        t \in {Empty, New("transaction")},
        s \in {Empty, New("csp-report")}}

ServerConfigs ==
    {[DefaultConfig EXCEPT !.project_id = p, !.key_id = k,
                           !.protocol_version = v, !.grouping_config = g] :
        p \in {1, 2},
        k \in {None, Some("config-key")},
        v \in {None, Some("7")},
        g \in {None, Some(ConfigGrouping)}}

Releases ==
    {<<"l", "a", "t", "e", "s", "t">>, <<"L", "a", "t", "e", "s", "t">>,
     <<"L", "A", "T", "E", "S", "T">>, <<"l", "a", "t", "e", "s">>,
     <<"1", ".", "0">>, <<>>}

Dists == {<<"d", "1">>, <<" ", "d", "1", "\n">>, <<" ", "\t">>, <<>>}

\* payloads that set the whitelisted attributes, release and dist
EnumEvents ==
    {[DefaultEvent EXCEPT !.platform = p, !.environment = e, !.release = r,
                          !.dist = d, !.tags = t] :
        p \in {Empty, New("javascript"), New("other"), New("bogus")},
        e \in {Empty, New(""), New("none"), New("production")},
        r \in {Empty} \cup {New(x) : x \in Releases},
        d \in {Empty} \cup {New(x) : x \in Dists},
        t \in {Empty, New(<<Tag("environment", "none")>>),
               New(<<Tag("environment", "staging")>>)}}

EnumConfigs ==
    {[DefaultConfig EXCEPT !.normalize_user_agent = n] :
        n \in {None, Some(FALSE), Some(TRUE)}}

\* the tag entries lists are built from
CoreTagEntries ==
    {Tag("foo", "1"), Tag("foo", "2"), Tag("bar", "1"),
     Tag("environment", "prod"), Tag("release", "1"),
     Tag("server_name", "old"), Tag("foo", ""), Empty}

\* further entries, used in lists one shorter
MoreTagEntries ==
    {Tag("environment", "none"), Tag("site", "old"), Tag("", "1"),
     Tag(LongKey, "1"), Tag("bar", LongValue),
     New(TagEntry(Empty, New("1"))), New(TagEntry(New("foo"), Empty))}

SeqsUpTo(S, n) == UNION {[1..m -> S] : m \in 0..n}

TagLists ==
    SeqsUpTo(CoreTagEntries, MaxTags)
        \cup SeqsUpTo(CoreTagEntries \cup MoreTagEntries, MaxTags - 1)

\* payloads that set tags and the attributes moved from and into tags
TagEvents ==
    {[DefaultEvent EXCEPT !.tags = New(t), !.server_name = n, !.site = s,
                          !.environment = e] :
        t \in TagLists,
        n \in {Empty, New("web1")},
        s \in {Empty, New("site1")},
        e \in {Empty, New("staging")}}

\* payloads whose server_name and site are not fit to be tag values
MovedEvents ==
    {[DefaultEvent EXCEPT !.tags = New(t), !.server_name = n, !.site = s] :
        t \in SeqsUpTo({Tag("server_name", "old"), Tag("server_name", ""),
                        Tag("site", "old"), Tag("foo", "1")}, MaxTags - 1),
        n \in {Empty, New("web1"), New(""), New(LongValue)},
        s \in {Empty, New("site1"), New("")}}

\* a stack trace whose frame has no abs_path, and one whose frame has
Stacktrace1 == <<Frame(Some("a.py"), None)>>

Stacktrace2 == <<Frame(Some("b.py"), Some("/src/b.py"))>>

\* Values<Exception> holding the list
ExceptionValues(list) == New([values |-> New(list)])

\* the strings an exception's value is drawn from: with and without a word
\* before the first colon, JSON-shaped, with a line feed, empty
ValueStrings ==
    {<<"E", ":", " ", "m">>, <<"E", ":", "m">>, <<"E", ":">>,
     <<"E", ":", ":", "x">>, <<"{", "a", ":", "b", "}">>,
     <<":", "m">>, <<"a", " ", "b", ":", "c">>, <<" ", "E", ":", "m">>,
     <<"E", ":", "m", "\n", "x">>, <<"m">>, <<>>}

\* payloads with one exception, over every shape of ty and value
SplitEvents ==
    {[DefaultEvent EXCEPT
         !.exceptions = ExceptionValues(<<New(Exception(t, v, s))>>),
         !.stacktrace = st] :
        t \in {Empty, New(<<>>), New(<<"T">>)},
        v \in {Empty} \cup {New(x) : x \in ValueStrings},
        s \in {Empty, New(Stacktrace2)},
        st \in {Empty, New(Stacktrace1)}}

\* the entries of the longer lists of exceptions: null, {}, an exception with
\* type, value and stack trace, and one whose value holds the type
CoreExceptions ==
    {Empty,
     New(Exception(Empty, Empty, Empty)),
     New(Exception(New(<<"T">>), New(<<"m">>), New(Stacktrace2))),
     New(Exception(Empty, New(<<"E", ":", " ", "m">>), Empty))}

\* payloads with up to MaxExceptions exceptions, or with an exception
\* interface that has no list
ExceptionEvents ==
    {[DefaultEvent EXCEPT !.exceptions = x, !.stacktrace = st, !.ty = t,
                          !.csp = s] :
        x \in {New([values |-> Empty])} \cup
              {ExceptionValues(l) : l \in SeqsUpTo(CoreExceptions, MaxExceptions)},
        st \in {Empty, New(Stacktrace1)},
        t \in {Empty, New("transaction")},
        s \in {Empty, New("csp-report")}}

\* the requests of the model: none, without env, with an env that has no
\* REMOTE_ADDR, with a REMOTE_ADDR of each kind, with a User-Agent header
Requests ==
    {Empty, New(DefaultRequest), New(Request(New(None), Empty)),
     New(Request(Empty, New(Some(New("payload-agent")))))}
        \cup {New(Request(New(Some(v)), Empty)) :
                 v \in {Empty, New(NumberValue("42")), New(StringValue("whoops")),
                        New(StringValue("{{auto}}")),
                        New(StringValue("10.0.0.5"))}}

\* a user that comes with a geo
UserWithGeo(ip_address) ==
    [User(ip_address) EXCEPT !.geo = New([resolved |-> "payload"])]

\* payloads that set what the inference of IP addresses reads
IpEvents ==
    {[DefaultEvent EXCEPT !.request = r, !.user = u, !.platform = p,
                          !.csp = s] :
        r \in Requests,
        u \in {Empty, New(DefaultUser), New(User(New(AutoIp))),
               New(User(New("192.168.0.1"))), New(UserWithGeo(Empty)),
               New(UserWithGeo(New("10.0.0.5")))},
        p \in {Empty, New("javascript"), New("objc")},
        s \in {Empty, New("csp-report")}}

\* no lookup, and a lookup that resolves two of the addresses
GeoIpLookups == {None, Some({"213.47.147.207", "10.0.0.5"})}

\* the first reading of the clock
FirstInstant == MaxInstant - 1

\* the clock of a run: one reading for each call, never going back
Clocks ==
    {c \in [1..MaxPasses -> FirstInstant..MaxInstant] :
        \A i \in 1..(MaxPasses - 1) : c[i] <= c[i + 1]}

\* a clock that stands still
StillClock == [i \in 1..MaxPasses |-> FirstInstant]

\* payloads with and without timestamp and received
TimeEvents ==
    {[DefaultEvent EXCEPT !.timestamp = t, !.received = r] :
        t \in {Empty} \cup {New(x) : x \in 0..(MaxInstant + 2)},
        r \in {Empty, New(0), New(MaxInstant + 2)}}

\* configs with and without each bound of the window of timestamps
TimeConfigs ==
    {[DefaultConfig EXCEPT !.max_secs_in_future = f, !.max_secs_in_past = p] :
        f \in {None, Some(0), Some(1), Some(-1)},
        p \in {None, Some(0), Some(2), Some(-1)}}

\* payloads with a time_spent of 0, 2147483646, 2147483647, 2147483648,
\* 2^32 + 5 and 2^64 - 1
TimeSpentEvents ==
    {[DefaultEvent EXCEPT !.time_spent = t] :
        t \in {Empty, New(U64(0, 0, 0, 0)), New(U64(0, 0, 32767, 65534)),
               New(U64(0, 0, 32767, 65535)), New(U64(0, 0, 32768, 0)),
               New(U64(0, 1, 0, 5)), New(U64(65535, 65535, 65535, 65535))}}

\* configs with and without the client's address and user agent
IpConfigs ==
    {[DefaultConfig EXCEPT !.client_ip = i, !.user_agent = a] :
        i \in {None, Some("213.47.147.207")},
        a \in {None, Some("config-agent")}}

----------------------------------------------------------------------------
(* The state machine *)

----------------------------------------------------------------------------
(* The `process-event` command, the Controller and the Config file          *)

\* no command has been started
NoCommand ==
    [pc |-> "none", pii_config |-> None, store |-> FALSE, debug |-> FALSE,
     pretty |-> FALSE, stdin |-> "ok", visits |-> <<>>, result |-> "none"]

\* Controller::default(): the timeout is Duration::from_secs(SHUTDOWN_TIMEOUT)
\* and nobody has subscribed; no signal has been handled, no subscriber has
\* answered with an error and the system runs
DefaultController ==
    [timeout |-> "SHUTDOWN_TIMEOUT", subscribers |-> 0, shutdowns |-> <<>>,
     last |-> "none", failed |-> FALSE, stopped |-> FALSE]

\* no Config has been opened
NoConfig ==
    [changed |-> FALSE, credentials |-> 0,
     file |-> [state |-> "missing", credentials |-> 0, newline |-> FALSE],
     op |-> "none", result |-> "none"]

\* the command as it starts: matches.value_of("pii_config") is absent or
\* names a file that is fine, unreadable or not a PII config; --store,
\* --debug and --pretty are flags; stdin holds an event, cannot be read or
\* does not parse
Commands ==
    [pc : {"start"},
     pii_config : {None, Some("ok"), Some("unreadable"), Some("invalid")},
     store : BOOLEAN, debug : BOOLEAN, pretty : BOOLEAN,
     stdin : {"ok", "unreadable", "invalid"},
     visits : {<<>>}, result : {"none"}]

\* an early return through `?`
Fail(c) == [c EXCEPT !.pc = "exit", !.result = "Err"]

\* fs::read_to_string(&pii_config)? and PiiConfig::from_json(..)?
read_pii_config(c) ==
    IF c.pii_config = None \/ c.pii_config = Some("ok")
    THEN [c EXCEPT !.pc = "config"]
    ELSE Fail(c)

\* stdin.lock().read_to_end(..)? and EventV8::from_json_bytes(..)?
parse_event(c) ==
    IF c.stdin = "ok"
    THEN [c EXCEPT !.pc = "parsed", !.visits = Append(@, "parse")]
    ELSE Fail(c)

\* if let Some(ref pii_config) = pii_config { process_value(.. PiiProcessor) }
visit_pii(c, ok) ==
    IF c.pii_config = None THEN [c EXCEPT !.pc = "scrubbed"]
    ELSE LET visited == [c EXCEPT !.visits = Append(@, "pii")]
         IN  IF ok THEN [visited EXCEPT !.pc = "scrubbed"] ELSE Fail(visited)

\* if matches.is_present("store") { process_value(.. StoreProcessor) }
visit_store(c, ok) ==
    IF ~c.store THEN [c EXCEPT !.pc = "stored"]
    ELSE LET visited == [c EXCEPT !.visits = Append(@, "normalizer")]
         IN  IF ok THEN [visited EXCEPT !.pc = "stored"] ELSE Fail(visited)

\* the three ways of printing the event; {:#?} cannot fail
print_event(c, ok) ==
    LET how == IF c.debug THEN "debug"
               ELSE IF c.pretty THEN "to_json_pretty" ELSE "to_json"
    IN  IF how = "debug" \/ ok
        THEN [c EXCEPT !.pc = "exit", !.result = "Ok",
                       !.visits = Append(@, "serialize")]
        ELSE Fail(c)

CliInit ==
    /\ cli \in Commands
    /\ event = DefaultEvent /\ prev = DefaultEvent /\ input = DefaultEvent
    /\ config = DefaultConfig
    /\ uaparser = TRUE /\ ipauto = TRUE
    /\ geoip_lookup = None /\ clock = StillClock
    /\ passes = 0 /\ result = "none"
    /\ retained = <<>> /\ validated = <<>>
    /\ controller = DefaultController
    /\ relayconfig = NoConfig

ReadPiiConfig ==
    /\ cli.pc = "start"
    /\ cli' = read_pii_config(cli)
    /\ UNCHANGED <<storevars, controller, relayconfig>>

ParseEvent ==
    /\ cli.pc = "config"
    /\ cli' = parse_event(cli)
    /\ UNCHANGED <<storevars, controller, relayconfig>>

VisitPii ==
    /\ cli.pc = "parsed"
    /\ \E ok \in BOOLEAN : cli' = visit_pii(cli, ok)
    /\ UNCHANGED <<storevars, controller, relayconfig>>

VisitStore ==
    /\ cli.pc = "scrubbed"
    /\ \E ok \in BOOLEAN : cli' = visit_store(cli, ok)
    /\ UNCHANGED <<storevars, controller, relayconfig>>

PrintEvent ==
    /\ cli.pc = "stored"
    /\ \E ok \in BOOLEAN : cli' = print_event(cli, ok)
    /\ UNCHANGED <<storevars, controller, relayconfig>>

CliNext == ReadPiiConfig \/ ParseEvent \/ VisitPii \/ VisitStore \/ PrintEvent

CliSpec == CliInit /\ [][CliNext]_vars

\* signal::SignalType
SignalTypes == {"Int", "Quit", "Term", "Hup", "Child"}

\* what a pending response to Shutdown resolves with: the handler's Ok(()),
\* or an error (the handler's Err(()) or a MailboxError)
Responses == {"Ok", "Err"}

\* a future that resolves with what the response resolved with
then_response(response) == response

\* future.then(|_| Ok(())): the future resolves with Ok(()) whatever the
\* response resolved with
then_ok(response) == "Ok"

\* future::join_all(futures) completes, and its continuation runs, once every
\* future has resolved with Ok; the first error would end it without the
\* continuation being run
join_all(futures) ==
    \A k \in 1..Len(futures) : futures[k] = "Ok"

\* Controller::shutdown: one Shutdown { timeout } sent to every subscriber,
\* the joined futures spawned on the context
shutdown(c, timeout) ==
    [c EXCEPT !.shutdowns =
        Append(@, [timeout |-> timeout,
                   responses |-> [k \in 1..c.subscribers |-> "pending"],
                   stop |-> "waiting"])]

\* Handler<signal::Signal> for Controller
handle_signal(c, type) ==
    LET seen == [c EXCEPT !.last = type]
    IN  CASE type = "Int" -> shutdown(seen, None)
          [] type = "Quit" -> shutdown(seen, None)
          [] type = "Term" -> shutdown(seen, Some(c.timeout))
          [] OTHER -> seen

ControllerInit ==
    /\ controller = DefaultController
    /\ event = DefaultEvent /\ prev = DefaultEvent /\ input = DefaultEvent
    /\ config = DefaultConfig
    /\ uaparser = TRUE /\ ipauto = TRUE
    /\ geoip_lookup = None /\ clock = StillClock
    /\ passes = 0 /\ result = "none"
    /\ retained = <<>> /\ validated = <<>>
    /\ cli = NoCommand
    /\ relayconfig = NoConfig

\* Handler<Subscribe> for Controller
Subscribe ==
    /\ ~controller.stopped
    /\ controller.subscribers < MaxSubscribers
    /\ controller' = [controller EXCEPT !.subscribers = @ + 1]
    /\ UNCHANGED <<storevars, cli, relayconfig>>

\* a signal is delivered to the Controller
Signal(type) ==
    /\ ~controller.stopped
    /\ Len(controller.shutdowns) < MaxSignals
    /\ controller' = handle_signal(controller, type)
    /\ UNCHANGED <<storevars, cli, relayconfig>>

\* the k-th subscriber's response to the i-th shutdown resolves, and with it
\* the future that join_all holds for it
Resolve(i, k, response) ==
    /\ ~controller.stopped
    /\ i \in 1..Len(controller.shutdowns)
    /\ k \in 1..Len(controller.shutdowns[i].responses)
    /\ controller.shutdowns[i].responses[k] = "pending"
    /\ controller' =
           [controller EXCEPT !.shutdowns[i].responses[k] = then_ok(response),
                              !.failed = @ \/ response = "Err"]
    /\ UNCHANGED <<storevars, cli, relayconfig>>

\* the joined futures of the i-th shutdown complete and the continuation
\* schedules the stop with ctx.run_later(when, ..)
Joined(i) ==
    /\ ~controller.stopped
    /\ i \in 1..Len(controller.shutdowns)
    /\ controller.shutdowns[i].stop = "waiting"
    /\ join_all(controller.shutdowns[i].responses)
    /\ controller' = [controller EXCEPT !.shutdowns[i].stop = "scheduled"]
    /\ UNCHANGED <<storevars, cli, relayconfig>>

\* the delay of the i-th shutdown has passed: System::current().stop()
RunLater(i) ==
    /\ ~controller.stopped
    /\ i \in 1..Len(controller.shutdowns)
    /\ controller.shutdowns[i].stop = "scheduled"
    /\ controller' = [controller EXCEPT !.shutdowns[i].stop = "fired",
                                        !.stopped = TRUE]
    /\ UNCHANGED <<storevars, cli, relayconfig>>

ControllerNext ==
    \/ Subscribe
    \/ \E type \in SignalTypes : Signal(type)
    \/ \E i \in 1..MaxSignals, k \in 1..MaxSubscribers, r \in Responses :
           Resolve(i, k, r)
    \/ \E i \in 1..MaxSignals : Joined(i)
    \/ \E i \in 1..MaxSignals : RunLater(i)

\* The arbiter polls every spawned future that can make progress and fires
\* every timer; nothing makes a subscriber answer.
ControllerSpec ==
    /\ ControllerInit
    /\ [][ControllerNext]_vars
    /\ \A i \in 1..MaxSignals : WF_vars(Joined(i)) /\ WF_vars(RunLater(i))

\* the config file before the program runs: missing, or written with the
\* credentials of generation n (0: a file without credentials)
ConfigFiles ==
    {[state |-> "missing", credentials |-> 0, newline |-> FALSE]}
        \cup [state : {"written"}, credentials : {0, 1}, newline : {TRUE}]

\* Config::is_configured
is_configured(c) == c.credentials # 0

\* Config::regenerate_credentials: a fresh key pair and agent id
regenerate_credentials(c) ==
    [c EXCEPT !.credentials = @ + 1, !.changed = TRUE, !.op = "regenerate"]

\* Config::from_path: the file's agent section, changed and filename being
\* skipped by serde
from_path(file) ==
    [changed |-> FALSE, credentials |-> file.credentials, file |-> file,
     op |-> "none", result |-> "none"]

\* Config::open
open(file) ==
    LET loaded == from_path(file)
    IN  IF ~is_configured(loaded)
        THEN [regenerate_credentials(loaded) EXCEPT !.op = "none"]
        ELSE loaded

\* a save that writes the file and leaves changed as it was
save_keeps_changed(c, created, serialized, newline) ==
    IF ~c.changed THEN [c EXCEPT !.op = "save", !.result = "Ok(false)"]
    ELSE IF ~created
    THEN [c EXCEPT !.op = "save", !.result = "CouldNotSave"]
    ELSE IF ~serialized
    THEN [c EXCEPT !.op = "save", !.result = "BadYaml",
                   !.file = [state |-> "partial", credentials |-> 0,
                             newline |-> FALSE]]
    ELSE [c EXCEPT !.op = "save", !.result = "Ok(true)",
                   !.file = [state |-> "written",
                             credentials |-> c.credentials,
                             newline |-> newline]]

\* Config::save; created, serialized and newline say whether File::create,
\* serde_yaml::to_writer and the final write_all succeed
save(c, created, serialized, newline) ==
    IF ~c.changed THEN [c EXCEPT !.op = "save", !.result = "Ok(false)"]
    ELSE IF ~created
    THEN [c EXCEPT !.op = "save", !.result = "CouldNotSave"]
    ELSE IF ~serialized
    THEN [c EXCEPT !.op = "save", !.result = "BadYaml",
                   !.file = [state |-> "partial", credentials |-> 0,
                             newline |-> FALSE]]
    ELSE [c EXCEPT !.op = "save", !.result = "Ok(true)",
                   !.changed = FALSE,
                   !.file = [state |-> "written",
                             credentials |-> c.credentials,
                             newline |-> newline]]

ConfigInit ==
    /\ \E file \in ConfigFiles :
           \/ relayconfig = open(file)
           \/ file.state = "written" /\ relayconfig = from_path(file)
    /\ event = DefaultEvent /\ prev = DefaultEvent /\ input = DefaultEvent
    /\ config = DefaultConfig
    /\ uaparser = TRUE /\ ipauto = TRUE
    /\ geoip_lookup = None /\ clock = StillClock
    /\ passes = 0 /\ result = "none"
    /\ retained = <<>> /\ validated = <<>>
    /\ cli = NoCommand
    /\ controller = DefaultController

Save ==
    /\ \E created \in BOOLEAN, serialized \in BOOLEAN, newline \in BOOLEAN :
           relayconfig' = save(relayconfig, created, serialized, newline)
    /\ UNCHANGED <<storevars, cli, controller>>

RegenerateCredentials ==
    /\ relayconfig.credentials < MaxCredentials
    /\ relayconfig' = regenerate_credentials(relayconfig)
    /\ UNCHANGED <<storevars, cli, controller>>

ConfigNext == Save \/ RegenerateCredentials

ConfigSpec == ConfigInit /\ [][ConfigNext]_vars

----------------------------------------------------------------------------
(* The normalizer as a state machine *)


Init ==
    /\ \/ /\ event \in ServerEvents /\ config \in ServerConfigs
          /\ uaparser = TRUE /\ ipauto = TRUE
          /\ geoip_lookup = None /\ clock = StillClock
       \/ /\ event \in EnumEvents /\ config \in EnumConfigs
          /\ uaparser \in BOOLEAN /\ ipauto = TRUE
          /\ geoip_lookup = None /\ clock = StillClock
       \/ /\ event \in TagEvents \cup MovedEvents \cup SplitEvents
                       \cup ExceptionEvents \cup TimeSpentEvents
          /\ config = DefaultConfig
          /\ uaparser = TRUE /\ ipauto = TRUE
          /\ geoip_lookup = None /\ clock = StillClock
       \/ /\ event \in IpEvents /\ config \in IpConfigs
          /\ uaparser = TRUE /\ ipauto \in BOOLEAN
          /\ geoip_lookup \in GeoIpLookups /\ clock = StillClock
       \/ /\ event \in TimeEvents /\ config \in TimeConfigs
          /\ uaparser = TRUE /\ ipauto = TRUE
          /\ geoip_lookup = None /\ clock \in Clocks
    /\ prev = event
    /\ input = event
    /\ passes = 0
    /\ result = "none"
    /\ retained = <<>>
    /\ validated = <<>>
    /\ cli = NoCommand
    /\ controller = DefaultController
    /\ relayconfig = NoConfig

\* process_value(&mut event, &mut processor, ProcessingState::root()): one
\* call of process_event on the event
ProcessValue ==
    LET r == process_event(event, config, uaparser, ipauto, geoip_lookup,
                           clock[passes + 1])
    IN  /\ prev' = event
        /\ event' = r.event
        /\ result' = r.result
        /\ retained' = r.retained
        /\ validated' = r.validated
        /\ passes' = passes + 1
        /\ UNCHANGED <<input, config, uaparser, ipauto, geoip_lookup, clock>>
        /\ UNCHANGED <<cli, controller, relayconfig>>

\* the first normalization of the parsed event
Normalize ==
    /\ passes = 0
    /\ ProcessValue

\* normalizing an already normalized event again
Renormalize ==
    /\ passes >= 1
    /\ passes < MaxPasses
    /\ result = "Ok"
    /\ ProcessValue

Next == Normalize \/ Renormalize

Spec == Init /\ [][Next]_vars

----------------------------------------------------------------------------
(* Properties.  `prev` is the event a call of process_event was given and  *)
(* `event` the event it left, so each property speaks about every call.    *)

\* at least one call of process_event has been made
Processed == passes >= 1

\* the tag list of an event (empty when the event has no tags)
TagsOf(e) == IF e.tags.val = None THEN <<>> ELSE e.tags.val[1]

\* the indices of the entries of a tag list that hold a value
Holding(tags) == {i \in 1..Len(tags) : tags[i].val # None}

\* the indices of the entries of a tag list that hold the key
WithKey(tags, key) ==
    {i \in Holding(tags) : KeyOrDefault(tags[i].val[1]) = key}

\* the keys held by the entries of a tag list
KeysOf(tags) == {KeyOrDefault(tags[i].val[1]) : i \in Holding(tags)}

\* C1: after process_event the event's project, key_id and version are those
\* of the config and grouping_config is the config's (absent when the config
\* has none), whatever the payload carried in these fields.
ServerFieldAuthority ==
    Processed =>
        /\ event.project = [val |-> <<config.project_id>>, err |-> <<>>, orig |-> <<>>]
        /\ event.key_id = [val |-> config.key_id, err |-> <<>>, orig |-> <<>>]
        /\ event.version = [val |-> config.protocol_version, err |-> <<>>, orig |-> <<>>]
        /\ event.grouping_config.val = config.grouping_config
        /\ event.grouping_config.err = <<>>

\* C1 witness: a payload that sets all four fields to values the config does
\* not have has been processed.
ServerFieldAuthorityWitness ==
    /\ passes = 1
    /\ input.project.val # None /\ input.project.val[1] # config.project_id
    /\ input.key_id.val # None /\ input.key_id.val # config.key_id
    /\ input.version.val # None /\ input.version.val # config.protocol_version
    /\ input.grouping_config.val # None /\ config.grouping_config = None

\* C2: process_event on the root event returns Ok, without error result and
\* without panic, for every input event and every config.
RootAlwaysOk == Processed => result = "Ok"

\* C3: normalization is idempotent: processing an already normalized event
\* with the same config leaves it unchanged.
Idempotent == (passes >= 2 /\ result = "Ok") => event = prev

\* C4: the environment of a normalized event, when it has a value, is not a
\* member of INVALID_ENVIRONMENTS, wherever the value came from.
EnvironmentNeverInvalid ==
    Processed =>
        (event.environment.val # None
            => event.environment.val[1] \notin INVALID_ENVIRONMENTS)

\* C5: an input whose top-level environment is a member of
\* INVALID_ENVIRONMENTS leaves the environment without value, with exactly
\* the error InvalidData and the rejected string as original value.
InvalidEnvironmentRejected ==
    (Processed /\ prev.environment.val # None
        /\ prev.environment.val[1] \in INVALID_ENVIRONMENTS)
    => event.environment =
          [val |-> None, err |-> <<"InvalidData">>, orig |-> prev.environment.val]

\* the event given to the last call had a platform outside VALID_PLATFORMS
HadInvalidPlatform ==
    /\ Processed
    /\ prev.platform.val # None
    /\ prev.platform.val[1] \notin VALID_PLATFORMS

\* C6 as stated: an input whose platform is not a member of VALID_PLATFORMS
\* leaves the platform of the output absent.
InvalidPlatformAbsent == HadInvalidPlatform => event.platform.val = None

\* C6 as amended: an input whose platform is not a member of VALID_PLATFORMS
\* leaves the output with the default platform "other".
InvalidPlatformDefaulted == HadInvalidPlatform => event.platform.val = <<"other">>

\* C6 witness: an event with the platform "bogus" has been processed.
InvalidPlatformWitness ==
    /\ passes = 1
    /\ input.platform.val = <<"bogus">>
    /\ event.platform.val # input.platform.val

\* the release equals an entry of INVALID_RELEASES up to ASCII case
MatchesInvalidRelease(release) ==
    \E invalid \in INVALID_RELEASES :
        /\ Len(release) = Len(invalid)
        /\ \A i \in 1..Len(invalid) :
              release[i] = invalid[i] \/ ToAsciiLowercase(release[i]) = invalid[i]

\* C7: a release that equals an entry of INVALID_RELEASES ignoring ASCII case
\* is left without value, with exactly the error InvalidData and the rejected
\* string as original value; any other release is left unchanged.
InvalidReleaseRemoved ==
    (Processed /\ prev.release.val # None) =>
        IF MatchesInvalidRelease(prev.release.val[1])
        THEN event.release =
                [val |-> None, err |-> <<"InvalidData">>, orig |-> prev.release.val]
        ELSE event.release = prev.release

\* C7 witness: the release "Latest" has been rejected.
InvalidReleaseWitness ==
    /\ passes = 1
    /\ input.release.val = << <<"L", "a", "t", "e", "s", "t">> >>
    /\ event.release.val = None
    /\ event.release.orig = input.release.val

\* C8: in a normalized event dist has a value only if release has a
\* non-empty value, and a dist that is kept has no leading or trailing
\* whitespace.
DistNeedsRelease ==
    (Processed /\ event.dist.val # None) =>
        /\ event.release.val # None
        /\ Len(event.release.val[1]) > 0
        /\ LET dist == event.dist.val[1]
           IN  dist # <<>> =>
                   /\ ~ IsWhitespace(dist[1])
                   /\ ~ IsWhitespace(dist[Len(dist)])

\* C8 witness: a payload with a dist and the release "latest" has been
\* processed: the release was removed by validation and the dist with it.
DistNeedsReleaseWitness ==
    /\ passes = 1
    /\ input.release.val = << <<"l", "a", "t", "e", "s", "t">> >>
    /\ input.dist.val = << <<" ", "d", "1", "\n">> >>
    /\ event.dist.val = None

\* C9: no two tag entries of a normalized event that hold a value have the
\* same key, the server_name and site entries included.
TagKeysUnique ==
    Processed =>
        \A i, j \in Holding(TagsOf(event)) :
            i # j => TagsOf(event)[i].val[1].key.val # TagsOf(event)[j].val[1].key.val

\* C9 witness: tags with a repeated key and a server_name tag, together with
\* a top-level server_name, have been processed.
TagKeysUniqueWitness ==
    /\ passes = 1
    /\ Cardinality(WithKey(TagsOf(input), "foo")) >= 2
    /\ WithKey(TagsOf(input), "server_name") # {}
    /\ input.server_name.val # None
    /\ WithKey(TagsOf(event), "server_name") # {}

\* a is b with some entries left out
RECURSIVE IsSubsequence(_, _)
IsSubsequence(a, b) ==
    IF a = <<>> THEN TRUE
    ELSE IF b = <<>> THEN FALSE
    ELSE IF Head(a) = Head(b) THEN IsSubsequence(Tail(a), Tail(b))
    ELSE IsSubsequence(a, Tail(b))

\* of the entries holding the key, deduplication kept the one with the lowest
\* index of the input list and no other
FirstKept(key) ==
    LET first == CHOOSE i \in WithKey(TagsOf(prev), key) :
                     \A j \in WithKey(TagsOf(prev), key) : i <= j
    IN  /\ Cardinality(WithKey(retained, key)) = 1
        /\ \A i \in WithKey(retained, key) : retained[i] = TagsOf(prev)[first]

\* C10 as stated: for every key that occurs more than once in the input tag
\* list deduplication keeps the entry with the lowest index and drops the
\* later ones, and the surviving entries keep their relative input order.
FirstOccurrenceWinsEveryKey ==
    Processed =>
        /\ \A key \in KeysOf(TagsOf(prev)) :
              Cardinality(WithKey(TagsOf(prev), key)) > 1 => FirstKept(key)
        /\ IsSubsequence(retained, TagsOf(prev))

\* C10 as amended: the same for every key other than the internal names and
\* `environment`, whose entries are taken out before or by the same filter
\* (keys being told apart by their hashes, which do not collide here).
FirstOccurrenceWins ==
    Processed =>
        /\ \A key \in KeysOf(TagsOf(prev)) \ (InternalTagNames \cup {"environment"}) :
              Cardinality(WithKey(TagsOf(prev), key)) > 1 => FirstKept(key)
        /\ IsSubsequence(retained, TagsOf(prev))

\* C10 witness: the tags foo=1, bar=1, foo=2 have been deduplicated to
\* foo=1, bar=1.
FirstOccurrenceWinsWitness ==
    /\ passes = 1
    /\ TagsOf(input) = <<Tag("foo", "1"), Tag("bar", "1"), Tag("foo", "2")>>
    /\ retained = <<Tag("foo", "1"), Tag("bar", "1")>>

----------------------------------------------------------------------------
(* Properties of the tag entries and of the fields moved from and to tags  *)

\* the entry holds a pair whose key and value are fit for a tag
FitTag(entry) ==
    LET tag == entry.val[1]
    IN  /\ tag.key.val # None => Len(tag.key.val[1]) <= 32
        /\ tag.value.val # None =>
                tag.value.val[1] # "" /\ Len(tag.value.val[1]) <= 200

\* C11: each tag entry of a normalized event that still holds a value has a
\* key of at most MaxChars::TagKey characters and a non-empty value of at
\* most MaxChars::TagValue characters, the server_name and site entries
\* included.
TagEntriesFit ==
    Processed => \A i \in Holding(TagsOf(event)) : FitTag(TagsOf(event)[i])

\* the error the validation gives the tag, "" when the tag passes
TagError(tag) ==
    IF tag.key.val # None /\ Len(tag.key.val[1]) > 32 THEN "ValueTooLong"
    ELSE IF tag.value.val = None THEN ""
    ELSE IF tag.value.val[1] = "" THEN "NonEmptyExpected"
    ELSE IF Len(tag.value.val[1]) > 200 THEN "ValueTooLong"
    ELSE ""

\* C12: each tag that survived filtering and deduplication is validated on
\* its own: a rejected entry keeps its position in the output list with no
\* value, the one error of its case and no original value, an accepted entry
\* keeps its value, and this holds for the entries after a rejected one too.
TagsValidatedIndependently ==
    Processed =>
        /\ Len(validated) = Len(retained)
        /\ Len(TagsOf(event)) >= Len(retained)
        /\ \A i \in 1..Len(retained) :
             IF retained[i].val = None THEN validated[i] = retained[i]
             ELSE IF TagError(retained[i].val[1]) = ""
                  THEN validated[i] = retained[i]
                  ELSE /\ validated[i] =
                            [val |-> <<>>,
                             err |-> <<TagError(retained[i].val[1])>>,
                             orig |-> <<>>]
                       /\ TagsOf(event)[i] = validated[i]

\* two rejected tags in a row, each with its own error
TagsValidatedIndependentlyWitness ==
    /\ Processed
    /\ Len(retained) = 2
    /\ retained[1].val # None /\ retained[2].val # None
    /\ TagError(retained[1].val[1]) = "NonEmptyExpected"
    /\ TagError(retained[2].val[1]) = "ValueTooLong"
    /\ TagsOf(event)[1].err = <<"NonEmptyExpected">>
    /\ TagsOf(event)[2].err = <<"ValueTooLong">>

\* C13: no tag entry of a normalized event has one of the internal keys (an
\* absent key counts as ""), and every other key of the input tags, but for
\* `environment` which is moved to the top level, is still held by an entry
\* after the filter.
InternalTagsRemoved ==
    Processed =>
        /\ \A i \in Holding(TagsOf(event)) :
             KeyOrDefault(TagsOf(event)[i].val[1]) \notin
                 {"", "release", "dist", "user", "filename", "function"}
        /\ \A k \in KeysOf(TagsOf(prev)) :
             k \notin {"", "release", "dist", "user", "filename", "function",
                       "environment"}
                 => k \in KeysOf(retained)

\* an input with a `release` tag and a `foo` tag: only the `foo` tag is left
InternalTagsRemovedWitness ==
    /\ Processed
    /\ {"release", "foo"} \subseteq KeysOf(TagsOf(prev))
    /\ KeysOf(TagsOf(event)) = {"foo"}

\* the value of the first `environment` tag of the input, None when there is
\* no such tag or it has no value
EnvironmentTagValue(e) ==
    LET i == Position(TagsOf(e), "environment")
    IN  IF i = 0 THEN None ELSE TagValueOf(TagsOf(e)[i].val[1])

\* C14: when the input tags hold an `environment` entry with a value, the
\* entry is removed from the tags and its value becomes event.environment if
\* and only if the top-level environment was absent or empty; a non-empty
\* top-level environment is not replaced by the tag's value.
EnvironmentTagMoved ==
    (Processed /\ EnvironmentTagValue(prev) # None) =>
        /\ Cardinality(WithKey(TagsOf(event), "environment")) <
               Cardinality(WithKey(TagsOf(prev), "environment"))
        /\ IF prev.environment.val = None \/ prev.environment.val = <<"">>
           THEN event.environment.val = EnvironmentTagValue(prev)
           ELSE \/ event.environment.val # EnvironmentTagValue(prev)
                \/ prev.environment.val = EnvironmentTagValue(prev)

\* the move of one top-level field into the tags, as C15 states it
FieldMovedIntoTags(field, key) ==
    LET tags == TagsOf(event)
    IN  IF field.val # None
        THEN /\ Cardinality(WithKey(tags, key)) = 1
             /\ \A i \in WithKey(tags, key) : tags[i].val[1].value = field
             /\ Position(validated, key) # 0 =>
                    Position(tags, key) = Position(validated, key)
             /\ Len(tags) <= Len(validated) + 2
        ELSE /\ WithKey(tags, key) = WithKey(validated, key)
             /\ \A i \in WithKey(tags, key) : tags[i] = validated[i]

\* C15: a server_name (site) that has a value leaves the top level and is
\* held by exactly one tag entry with that key, in the place of the tag that
\* held the key when there was one; without a top-level value the tags with
\* that key stay as the validation left them.
TopLevelKeysMoved ==
    Processed =>
        /\ event.server_name = Empty
        /\ event.site = Empty
        /\ FieldMovedIntoTags(prev.server_name, "server_name")
        /\ FieldMovedIntoTags(prev.site, "site")

\* a server_name replaces the tag of that name in place while the `site` tag
\* stays, there being no top-level site
TopLevelKeysMovedWitness ==
    /\ Processed
    /\ prev.server_name.val = <<"web1">>
    /\ prev.site.val = None
    /\ Position(validated, "server_name") = 1
    /\ Position(validated, "site") = 2
    /\ TagsOf(event) = <<Tag("server_name", "web1"), Tag("site", "old")>>

----------------------------------------------------------------------------
(* Properties of the exceptions and of the event type                      *)

\* the exceptions that held a value when the last pass began
Live(e) == {i \in 1..Len(ExceptionsOf(e)) : ExceptionsOf(e)[i].val # None}

\* exception i as the last pass left it, soft-deleted or not
Left(i) ==
    LET slot == ExceptionsOf(event)[i]
    IN  IF slot.val # None THEN slot.val[1] ELSE slot.orig[1]

\* the string reads word, colon, rest, with the colon at position k
SplitsAt(str, k) ==
    /\ k > 1
    /\ str[k] = ":"
    /\ \A i \in 1..(k - 1) : str[i] \in WordChars
    /\ \A i \in (k + 1)..Len(str) : str[i] # "\n"

\* the string starts with `{` and ends with `}`
JsonShaped(str) == Len(str) >= 2 /\ str[1] = "{" /\ str[Len(str)] = "}"

\* C16 for one exception: before and after process_exception
SplitAsStated(before, after) ==
    /\ IF /\ StrIsEmpty(before.ty)
          /\ before.value.val # None
          /\ \E k \in 1..Len(before.value.val[1]) :
                SplitsAt(before.value.val[1], k)
       THEN \E k \in 1..Len(before.value.val[1]) :
               LET str == before.value.val[1]
               IN  /\ SplitsAt(str, k)
                   /\ \A j \in 1..(k - 1) : str[j] # ":"
                   /\ after.ty.val = <<SubSeq(str, 1, k - 1)>>
                   /\ after.value.val = <<Trim(SubSeq(str, k + 1, Len(str)))>>
       ELSE after.ty = before.ty /\ after.value = before.value
    /\ (before.ty.val = None /\ before.value.val # None
            /\ JsonShaped(before.value.val[1]))
           => after.ty.val = None /\ after.value = before.value
    /\ ~StrIsEmpty(before.ty)
           => after.ty = before.ty /\ after.value = before.value

\* C16: process_exception splits the value only when ty is absent or empty
\* and the value reads word, colon, rest: ty becomes the word before the
\* first colon and value the trimmed rest; a value in braces is never split
\* and an exception with a non-empty ty keeps ty and value.
TypeInValueSplit ==
    Processed =>
        \A i \in Live(prev) : SplitAsStated(ExceptionsOf(prev)[i].val[1], Left(i))

\* "E: m" was split into ty E and value m, the rest being trimmed
TypeInValueSplitWitness ==
    /\ Processed
    /\ Len(ExceptionsOf(prev)) = 1
    /\ 1 \in Live(prev)
    /\ ExceptionsOf(prev)[1].val[1].ty.val = None
    /\ ExceptionsOf(prev)[1].val[1].value.val = <<<<"E", ":", " ", "m">>>>
    /\ Left(1).ty.val = <<<<"E">>>>
    /\ Left(1).value.val = <<<<"m">>>>

\* C17: an exception that still holds a value has a non-empty ty or a
\* non-empty value, and an exception whose ty and value are both absent or
\* empty is soft-deleted with the one error MissingAttribute "type or value".
ExceptionHasTypeOrValue ==
    Processed =>
        /\ \A i \in Live(event) :
             LET exception == ExceptionsOf(event)[i].val[1]
             IN  ~StrIsEmpty(exception.ty) \/ ~StrIsEmpty(exception.value)
        /\ \A i \in Live(prev) :
             (StrIsEmpty(Left(i).ty) /\ StrIsEmpty(Left(i).value)) =>
                 /\ ExceptionsOf(event)[i].val = None
                 /\ ExceptionsOf(event)[i].orig # None
                 /\ ExceptionsOf(event)[i].err =
                        <<"MissingAttribute: type or value">>

\* an exception with empty ty and empty value was deleted
ExceptionHasTypeOrValueWitness ==
    /\ Processed
    /\ 1 \in Live(prev)
    /\ ExceptionsOf(prev)[1].val[1].ty.val = <<<<>>>>
    /\ ExceptionsOf(prev)[1].val[1].value.val = <<<<>>>>
    /\ ExceptionsOf(event)[1].val = None
    /\ ExceptionsOf(event)[1].err = <<"MissingAttribute: type or value">>

\* C18 as stated: with exactly one entry in exceptions.values and a
\* top-level stack trace, the top-level slot ends empty and the exception
\* holds the former top-level stack trace; with zero or several entries the
\* top-level stack trace stays in place.
StacktraceMovedIntoSingleEntry ==
    Processed =>
        IF Len(ExceptionsOf(prev)) = 1 /\ prev.stacktrace.val # None
        THEN /\ event.stacktrace.val = None
             /\ ExceptionsOf(event)[1].val # None
             /\ ExceptionsOf(event)[1].val[1].stacktrace =
                    process_stacktrace(prev.stacktrace)
        ELSE event.stacktrace = process_stacktrace(prev.stacktrace)

\* C18: with exactly one entry in exceptions.values that holds a value after
\* the child traversal and a top-level stack trace, the top-level slot ends
\* empty and the exception holds the former top-level stack trace; with
\* zero or several entries, or a single entry without a value, the
\* top-level stack trace stays in place.
StacktraceMoved ==
    Processed =>
        IF /\ Len(ExceptionsOf(prev)) = 1
           /\ prev.stacktrace.val # None
           /\ ExceptionsOf(event)[1].val # None
        THEN /\ event.stacktrace = Empty
             /\ ExceptionsOf(event)[1].val[1].stacktrace =
                    process_stacktrace(prev.stacktrace)
        ELSE event.stacktrace = process_stacktrace(prev.stacktrace)

\* the top-level stack trace took the place of the single exception's own
StacktraceMovedWitness ==
    /\ Processed
    /\ Len(ExceptionsOf(prev)) = 1
    /\ 1 \in Live(prev)
    /\ prev.stacktrace.val = <<Stacktrace1>>
    /\ ExceptionsOf(prev)[1].val[1].stacktrace.val = <<Stacktrace2>>
    /\ event.stacktrace = Empty
    /\ ExceptionsOf(event)[1].val[1].stacktrace.val =
           <<<<Frame(Some("a.py"), Some("a.py"))>>>>

----------------------------------------------------------------------------
(* Properties of the inference of IP addresses                             *)

\* user.ip_address of an event, None when there is no user or no address
UserIp(e) ==
    IF e.user.val = None THEN None ELSE e.user.val[1].ip_address.val

\* C20: with config.client_ip set, a REMOTE_ADDR equal to "{{auto}}" is
\* replaced by the text of the client IP, a user.ip_address holding the auto
\* sentinel is replaced by the client IP, and the output user.ip_address is
\* not the sentinel; without config.client_ip neither REMOTE_ADDR nor a
\* user.ip_address that is present is modified.
AutoResolved ==
    Processed =>
        IF config.client_ip # None
        THEN /\ RemoteAddrStr(prev) = <<"{{auto}}">> =>
                    RemoteAddrStr(event) = config.client_ip
             /\ UserIp(prev) = <<"{{auto}}">> => UserIp(event) = config.client_ip
             /\ UserIp(event) # <<"{{auto}}">>
        ELSE /\ RemoteAddr(event) = RemoteAddr(prev)
             /\ UserIp(prev) # None => UserIp(event) = UserIp(prev)

\* both sentinels of an event that is not a security report were replaced
AutoResolvedWitness ==
    /\ Processed
    /\ config.client_ip = <<"213.47.147.207">>
    /\ ~is_security_report(prev)
    /\ RemoteAddrStr(prev) = <<"{{auto}}">>
    /\ UserIp(prev) = <<"{{auto}}">>
    /\ RemoteAddrStr(event) = <<"213.47.147.207">>
    /\ UserIp(event) = <<"213.47.147.207">>

\* the address REMOTE_ADDR parses to once {{auto}} is resolved, None when it
\* does not parse
RemoteIp(e) ==
    LET text == IF RemoteAddrStr(e) = <<"{{auto}}">> /\ config.client_ip # None
                THEN config.client_ip
                ELSE RemoteAddrStr(e)
    IN  IF text # None /\ (text[1] \in IpTexts \/ (ipauto /\ text[1] = "{{auto}}"))
        THEN text
        ELSE None

\* the platform is one of those whose SDKs leave the address to the server
BackfillPlatform(e) ==
    e.platform.val \in {<<"javascript">>, <<"cocoa">>, <<"objc">>}

\* the decision for a user.ip_address that is absent
AbsentIpDecided ==
    IF RemoteIp(prev) # None THEN UserIp(event) = RemoteIp(prev)
    ELSE IF config.client_ip # None /\ BackfillPlatform(prev)
         THEN UserIp(event) = config.client_ip
         ELSE /\ UserIp(event) = None
              /\ config.client_ip = None => event.user = prev.user

\* C21 as stated: for an event that is not a security report, a
\* user.ip_address that is present and not auto is unchanged; otherwise it
\* becomes the IP of REMOTE_ADDR when that parses, else the client IP when
\* one is configured and the platform is javascript, cocoa or objc, else it
\* stays absent, and without client IP and valid REMOTE_ADDR no user is
\* created.
IpDecisionTable ==
    (Processed /\ ~is_security_report(prev)) =>
        IF UserIp(prev) # None /\ UserIp(prev) # <<"{{auto}}">>
        THEN UserIp(event) = UserIp(prev)
        ELSE AbsentIpDecided

\* C21: for an event that is not a security report, a user.ip_address that
\* is present and not auto is unchanged; one that is auto becomes the client
\* IP when one is configured and stays auto otherwise; one that is absent
\* becomes the IP of REMOTE_ADDR when that parses, else the client IP when
\* one is configured and the platform is javascript, cocoa or objc, else it
\* stays absent, and without client IP and valid REMOTE_ADDR the user is
\* left as it was.
IpDecisionTableWithAuto ==
    (Processed /\ ~is_security_report(prev)) =>
        IF UserIp(prev) = <<"{{auto}}">>
        THEN IF config.client_ip # None
             THEN UserIp(event) = config.client_ip
             ELSE UserIp(event) = <<"{{auto}}">>
        ELSE IF UserIp(prev) # None
        THEN UserIp(event) = UserIp(prev)
        ELSE AbsentIpDecided

\* an event without user, with an invalid REMOTE_ADDR and platform objc got
\* a user holding the client IP
IpDecisionTableWitness ==
    /\ Processed
    /\ ~is_security_report(prev)
    /\ prev.user.val = None
    /\ RemoteAddrStr(prev) = <<"whoops">>
    /\ prev.platform.val = <<"objc">>
    /\ config.client_ip = <<"213.47.147.207">>
    /\ UserIp(event) = <<"213.47.147.207">>

\* user.geo of an event, None when there is no user or no geo
UserGeo(e) == IF e.user.val = None THEN None ELSE e.user.val[1].geo.val

\* C22: the addresses are inferred before the children are walked: when the
\* pass leaves user.ip_address with a value that the configured lookup
\* resolves and user.geo was absent, user.geo is populated in that same pass;
\* when user.ip_address stays absent user.geo stays absent, and a user.geo
\* that was present is not overwritten.
GeoInferredInSamePass ==
    Processed =>
        /\ UserGeo(prev) # None => UserGeo(event) = UserGeo(prev)
        /\ (/\ UserGeo(prev) = None
            /\ UserIp(event) # None
            /\ geoip_lookup # None
            /\ UserIp(event)[1] \in geoip_lookup[1])
               => UserGeo(event) = <<[resolved |-> UserIp(event)[1]]>>
        /\ (UserGeo(prev) = None /\ UserIp(event) = None)
               => UserGeo(event) = None

\* an event without user got, in its first pass, the address of REMOTE_ADDR
\* and the geo of that address
GeoInferredInSamePassWitness ==
    /\ passes = 1
    /\ prev.user.val = None
    /\ RemoteAddrStr(prev) = <<"10.0.0.5">>
    /\ UserIp(event) = <<"10.0.0.5">>
    /\ UserGeo(event) = <<[resolved |-> "10.0.0.5"]>>

\* the reading of the clock in the last pass
Now == clock[passes]

\* the timestamp of the payload lies after, before the configured window
TooLate(e) ==
    /\ e.timestamp.val # None
    /\ config.max_secs_in_future # None
    /\ e.timestamp.val[1] > Now + config.max_secs_in_future[1]

TooEarly(e) ==
    /\ e.timestamp.val # None
    /\ config.max_secs_in_past # None
    /\ e.timestamp.val[1] < Now - config.max_secs_in_past[1]

\* received is the instant of the pass, a timestamp outside the window is
\* rejected with its error and kept as original value, and an absent or
\* rejected timestamp is set to the instant of the pass
TimestampsNormalized ==
    /\ event.received = New(Now)
    /\ event.timestamp.val # None
    /\ TooLate(prev) =>
           event.timestamp = [val |-> <<Now>>,
                              err |-> prev.timestamp.err \o <<"FutureTimestamp">>,
                              orig |-> prev.timestamp.val]
    /\ (TooEarly(prev) /\ ~TooLate(prev)) =>
           event.timestamp = [val |-> <<Now>>,
                              err |-> prev.timestamp.err \o <<"PastTimestamp">>,
                              orig |-> prev.timestamp.val]
    /\ prev.timestamp.val = None => event.timestamp.val = <<Now>>
    /\ (prev.timestamp.val # None /\ ~TooLate(prev) /\ ~TooEarly(prev)) =>
           event.timestamp = prev.timestamp

\* C24 as stated: received is the instant of normalization, timestamp is
\* always present, a timestamp outside the configured window is rejected
\* with FutureTimestamp or PastTimestamp and kept as original value, an
\* absent or rejected timestamp is set to the instant of received, and the
\* output timestamp never lies outside the configured window.
TimestampInWindow ==
    Processed =>
        /\ TimestampsNormalized
        /\ config.max_secs_in_future # None =>
               event.timestamp.val[1] <= Now + config.max_secs_in_future[1]
        /\ config.max_secs_in_past # None =>
               event.timestamp.val[1] >= Now - config.max_secs_in_past[1]

\* C24: as above, the output timestamp lying inside the configured window
\* for each bound that is configured and not negative.
TimestampInNonNegativeWindow ==
    Processed =>
        /\ TimestampsNormalized
        /\ (config.max_secs_in_future # None
                /\ config.max_secs_in_future[1] >= 0) =>
               event.timestamp.val[1] <= Now + config.max_secs_in_future[1]
        /\ (config.max_secs_in_past # None
                /\ config.max_secs_in_past[1] >= 0) =>
               event.timestamp.val[1] >= Now - config.max_secs_in_past[1]

\* a timestamp more than one second ahead was rejected and set to the
\* instant of the pass, the payload's received being discarded
TimestampInWindowWitness ==
    /\ Processed
    /\ config.max_secs_in_future = <<1>>
    /\ prev.timestamp.val = <<MaxInstant + 2>>
    /\ prev.received.val = <<0>>
    /\ event.timestamp.err = <<"FutureTimestamp">>
    /\ event.timestamp.val = event.received.val

\* the u64 is at most 2147483646 = 32767 * 2^16 + 65534
UpTo2147483646(x) ==
    /\ x[1] = 0
    /\ x[2] = 0
    /\ x[3] < 32767 \/ (x[3] = 32767 /\ x[4] <= 65534)

\* C25: time_spent, when present in the output, is below 2147483647: a value
\* up to 2147483646 is kept unchanged and a value from 2147483647 on is
\* hard-deleted, no original value being kept.
TimeSpentBounded ==
    Processed =>
        /\ event.time_spent.val # None => UpTo2147483646(event.time_spent.val[1])
        /\ (prev.time_spent.val # None /\ UpTo2147483646(prev.time_spent.val[1]))
               => event.time_spent = prev.time_spent
        /\ (prev.time_spent.val # None /\ ~UpTo2147483646(prev.time_spent.val[1]))
               => event.time_spent = Empty

\* 2147483647 itself was deleted
TimeSpentBoundedWitness ==
    /\ Processed
    /\ prev.time_spent.val = <<<<0, 0, 32767, 65535>>>>
    /\ event.time_spent = Empty

\* C30: with exactly one exception that holds a value and a top-level stack
\* trace, the stack trace found in the exception after normalization has
\* been through process_stacktrace: each of its frames with a filename and
\* no abs_path in the payload has abs_path equal to filename.
MovedStacktraceProcessed ==
    (/\ Processed
     /\ Len(ExceptionsOf(prev)) = 1
     /\ prev.stacktrace.val # None
     /\ Live(event) = {1}) =>
        LET moved == ExceptionsOf(event)[1].val[1].stacktrace
            frames == prev.stacktrace.val[1]
        IN  /\ moved.val # None
            /\ Len(moved.val[1]) = Len(frames)
            /\ \A i \in 1..Len(frames) :
                 /\ moved.val[1][i].filename = frames[i].filename
                 /\ moved.val[1][i].abs_path =
                        IF frames[i].abs_path = None
                        THEN frames[i].filename
                        ELSE frames[i].abs_path

\* the frame without abs_path arrived in an exception that had no stack
\* trace, with abs_path equal to filename
MovedStacktraceProcessedWitness ==
    /\ passes = 1
    /\ Len(ExceptionsOf(prev)) = 1
    /\ Live(event) = {1}
    /\ ExceptionsOf(prev)[1].val[1].stacktrace.val = None
    /\ prev.stacktrace.val = <<<<[filename |-> <<"a.py">>, abs_path |-> <<>>]>>>>
    /\ ExceptionsOf(event)[1].val[1].stacktrace.val =
           <<<<[filename |-> <<"a.py">>, abs_path |-> <<"a.py">>]>>>>

\* one of the four security reports is present
IsReport(e) ==
    \/ e.csp.val # None
    \/ e.hpkp.val # None
    \/ e.expectct.val # None
    \/ e.expectstaple.val # None

\* C23: a security report normalized with config.client_ip set ends with
\* user.ip_address equal to the client IP whatever the payload carried in
\* user.ip_address and REMOTE_ADDR; an event that is not a security report
\* gets no logger "csp", no forced user IP and no inserted User-Agent.
SecurityReportBackfill ==
    Processed =>
        IF IsReport(prev)
        THEN config.client_ip # None => UserIp(event) = config.client_ip
        ELSE /\ event.logger.val =
                    IF prev.logger.val # None THEN prev.logger.val ELSE <<"">>
             /\ event.request = prev.request \/ RemoteAddrStr(prev) = <<"{{auto}}">>
             /\ event.request.val # None =>
                    /\ prev.request.val # None
                    /\ event.request.val[1].headers = prev.request.val[1].headers
             /\ (UserIp(prev) # None /\ UserIp(prev) # <<"{{auto}}">>) =>
                    UserIp(event) = UserIp(prev)

\* a report whose payload had its own user address and a valid REMOTE_ADDR
\* ends with the client IP
SecurityReportBackfillWitness ==
    /\ Processed
    /\ IsReport(prev)
    /\ UserIp(prev) = <<"192.168.0.1">>
    /\ RemoteAddrStr(prev) = <<"10.0.0.5">>
    /\ config.client_ip = <<"213.47.147.207">>
    /\ UserIp(event) = <<"213.47.147.207">>

\* C26 as stated: in a run of process-event with a PII config and --store
\* the event is parsed, then visited by the normalizer, then visited by the
\* PII scrubber, then serialized; the normalizer's visit comes before the
\* scrubber's.
NormalizerVisitsBeforeScrubber ==
    (cli.pii_config # None /\ cli.store) =>
        /\ \A i, j \in 1..Len(cli.visits) :
               (cli.visits[i] = "normalizer" /\ cli.visits[j] = "pii") => i < j
        /\ cli.result = "Ok" =>
               cli.visits = <<"parse", "normalizer", "pii", "serialize">>

\* the i-th shutdown has been started
Started(i) == i <= Len(controller.shutdowns)

\* C27 as stated: once a shutdown with a timeout has been started (SIGTERM),
\* the actix system is eventually stopped, whatever the subscribers do with
\* the Shutdown message.
StoppedAfterTimeout ==
    \A i \in 1..MaxSignals :
        (Started(i) /\ controller.shutdowns[i].timeout # None)
            ~> controller.stopped

\* every response to the i-th shutdown has resolved
AllResolved(i) ==
    \A k \in 1..Len(controller.shutdowns[i].responses) :
        controller.shutdowns[i].responses[k] # "pending"

\* a stop is scheduled by a shutdown only when all its responses are in, and
\* the system is stopped only by the timer of such a shutdown
StopOnlyAfterAllResolved ==
    /\ \A i \in 1..Len(controller.shutdowns) :
           controller.shutdowns[i].stop # "waiting" => AllResolved(i)
    /\ controller.stopped =>
           \E i \in 1..Len(controller.shutdowns) :
               controller.shutdowns[i].stop = "fired"

\* what the handling of one signal does
SignalHandled ==
    (\/ controller'.last # controller.last
     \/ Len(controller'.shutdowns) > Len(controller.shutdowns)) =>
        IF controller'.last \in {"Int", "Quit", "Term"}
        THEN /\ Len(controller'.shutdowns) = Len(controller.shutdowns) + 1
             /\ \A j \in 1..Len(controller.shutdowns) :
                    controller'.shutdowns[j] = controller.shutdowns[j]
             /\ LET sent == controller'.shutdowns[Len(controller'.shutdowns)]
                IN  /\ Len(sent.responses) = controller.subscribers
                    /\ \A k \in 1..Len(sent.responses) :
                           sent.responses[k] = "pending"
                    /\ sent.timeout = IF controller'.last = "Term"
                                      THEN Some(controller.timeout)
                                      ELSE None
                    /\ sent.stop = "waiting"
        ELSE /\ controller'.shutdowns = controller.shutdowns
             /\ controller'.subscribers = controller.subscribers
             /\ controller'.stopped = controller.stopped
             /\ controller'.failed = controller.failed

SaveWritesOnlyWhenChanged ==
    [][/\ (relayconfig' # relayconfig /\ relayconfig'.op = "save") =>
              IF ~relayconfig.changed
              THEN /\ relayconfig'.result = "Ok(false)"
                   /\ relayconfig'.file = relayconfig.file
                   /\ ~relayconfig'.changed
              ELSE \/ /\ relayconfig'.result = "Ok(true)"
                      /\ ~relayconfig'.changed
                      /\ relayconfig'.file.state = "written"
                      /\ relayconfig'.file.credentials =
                             relayconfig.credentials
                   \/ /\ relayconfig'.result = "CouldNotSave"
                      /\ relayconfig'.changed
                      /\ relayconfig'.file = relayconfig.file
                   \/ /\ relayconfig'.result = "BadYaml"
                      /\ relayconfig'.changed
       /\ (relayconfig' # relayconfig /\ relayconfig'.op = "save"
               /\ relayconfig.op = "save"
               /\ relayconfig.result = "Ok(true)") =>
              relayconfig'.result = "Ok(false)"
       /\ (relayconfig' # relayconfig /\ relayconfig'.op = "regenerate") =>
              relayconfig'.changed
      ]_vars

\* regenerated credentials were written and the save after that one
\* returned Ok(false)
SaveWritesOnlyWhenChangedWitness ==
    /\ relayconfig.op = "save"
    /\ relayconfig.result = "Ok(false)"
    /\ relayconfig.credentials >= 2
    /\ relayconfig.file.state = "written"
    /\ relayconfig.file.credentials = relayconfig.credentials

====
